---- MODULE Spec2Model ----
(***************************************************************************)
(* Model of relay/channel/gemini/adaptor.go: the Gemini protocol adaptor.  *)
(* Strings are sequences of one-character strings, so that the prefix,     *)
(* suffix, substring and split tests of the Go code are computed on the    *)
(* characters and not assumed.                                             *)
(***************************************************************************)
EXTENDS Integers, Sequences, FiniteSets, TLC

VARIABLES settings, info, requestModel, pc, url, handler, resp, bodyClosed,
          writer, request, ret

vars == <<settings, info, requestModel, pc, url, handler, resp, bodyClosed,
          writer, request, ret>>

(***************************************************************************)
(* Bounds of the model.                                                    *)
(***************************************************************************)
\* a model id is the concatenation of at most MaxSegs segments
MaxSegs == 3
\* the vendor prediction list holds at most MaxPredictions predictions
MaxPredictions == 3
\* an embedding request carries at most MaxInputs inputs
MaxInputs == 3
\* a message content sequence holds at most MaxItems items
MaxItems == 3

(***************************************************************************)
(* String literals of the source, as character sequences.                  *)
(***************************************************************************)
sImagen == <<"i", "m", "a", "g", "e", "n">>
sGemini == <<"g", "e", "m", "i", "n", "i">>
sGeminiEmbedding == <<"g", "e", "m", "i", "n", "i", "-", "e", "m", "b", "e", "d", "d", "i", "n", "g">>
sTextEmbedding == <<"t", "e", "x", "t", "-", "e", "m", "b", "e", "d", "d", "i", "n", "g">>
sEmbedding == <<"e", "m", "b", "e", "d", "d", "i", "n", "g">>
sTextEmbedding004 == <<"t", "e", "x", "t", "-", "e", "m", "b", "e", "d", "d", "i", "n", "g", "-", "0", "0", "4">>
sThinkingDash == <<"-", "t", "h", "i", "n", "k", "i", "n", "g", "-">>
sThinking == <<"-", "t", "h", "i", "n", "k", "i", "n", "g">>
sNoThinking == <<"-", "n", "o", "t", "h", "i", "n", "k", "i", "n", "g">>
sPredict == <<"p", "r", "e", "d", "i", "c", "t">>
sEmbedContent == <<"e", "m", "b", "e", "d", "C", "o", "n", "t", "e", "n", "t">>
sGenerateContent == <<"g", "e", "n", "e", "r", "a", "t", "e", "C", "o", "n", "t", "e", "n", "t">>
sStreamGenerateContent == <<"s", "t", "r", "e", "a", "m", "G", "e", "n", "e", "r", "a", "t", "e", "C", "o", "n", "t", "e", "n", "t", "?", "a", "l", "t", "=", "s", "s", "e">>
sModels == <<"/", "m", "o", "d", "e", "l", "s", "/">>
sSlash == <<"/">>
sColon == <<":">>

\* segments the model ids of the requests are built from
s004 == <<"-", "0", "0", "4">>
s5 == <<"-", "5">>
sX == <<"-", "x">>
Segments == {sImagen, sGemini, sGeminiEmbedding, sTextEmbedding, sEmbedding,
             s004, sThinking, sNoThinking, s5, sX}

Digits == {"0", "1", "2", "3", "4", "5", "6", "7", "8", "9"}

RECURSIVE IdsOfSegs(_)
IdsOfSegs(n) ==
    IF n = 0 THEN {<<>>}
    ELSE LET shorter == IdsOfSegs(n - 1)
         IN  shorter \cup {a \o b : a \in shorter, b \in Segments}

ModelIds == IdsOfSegs(MaxSegs)

(***************************************************************************)
(* The functions of package strings the adaptor calls.                     *)
(***************************************************************************)
HasPrefix(s, prefix) ==
    Len(s) >= Len(prefix) /\ SubSeq(s, 1, Len(prefix)) = prefix

HasSuffix(s, suffix) ==
    Len(s) >= Len(suffix) /\ SubSeq(s, Len(s) - Len(suffix) + 1, Len(s)) = suffix

TrimSuffix(s, suffix) ==
    IF HasSuffix(s, suffix) THEN SubSeq(s, 1, Len(s) - Len(suffix)) ELSE s

\* position (from 1) of the first occurrence of substr in s, 0 when absent
Index(s, substr) ==
    LET hits == {i \in 1..(Len(s) - Len(substr) + 1) :
                    SubSeq(s, i, i + Len(substr) - 1) = substr}
    IN  IF hits = {} THEN 0 ELSE CHOOSE i \in hits : \A j \in hits : i <= j

Contains(s, substr) == Index(s, substr) # 0

RECURSIVE Split(_, _)
Split(s, sep) ==
    LET i == Index(s, sep)
    IN  IF i = 0 THEN <<s>>
        ELSE <<SubSeq(s, 1, i - 1)>> \o Split(SubSeq(s, i + Len(sep), Len(s)), sep)

(***************************************************************************)
(* External configuration (package model_setting).                         *)
(***************************************************************************)
sV1 == <<"v", "1">>
sV1beta == <<"v", "1", "b", "e", "t", "a">>
sBaseUrl == <<"h", "t", "t", "p", "s", ":", "/", "/", "g">>

\* version table lookup: one id has its own version, the others the default
GetGeminiVersionSetting(name) == IF name = sImagen THEN sV1 ELSE sV1beta

(***************************************************************************)
(* Adaptor.GetRequestURL                                                   *)
(***************************************************************************)
\* the rewrite of info.UpstreamModelName
RewriteModelName(name, enabled) ==
    IF enabled
    THEN IF Contains(name, sThinkingDash) THEN Split(name, sThinkingDash)[1]
         ELSE IF HasSuffix(name, sThinking) THEN TrimSuffix(name, sThinking)
         ELSE IF HasSuffix(name, sNoThinking) THEN TrimSuffix(name, sNoThinking)
         ELSE name
    ELSE name

IsEmbeddingModel(name) ==
    \/ HasPrefix(name, sTextEmbedding)
    \/ HasPrefix(name, sEmbedding)
    \/ HasPrefix(name, sGeminiEmbedding)

Sprintf4(base, version, name, action) ==
    base \o sSlash \o version \o sModels \o name \o sColon \o action

RequestURLStreamBlindAction(name, isStream) ==
    IF HasPrefix(name, sImagen) THEN sPredict
    ELSE IF IsEmbeddingModel(name) THEN sEmbedContent
    ELSE sGenerateContent

RequestURLAction(name, isStream) ==
    IF HasPrefix(name, sImagen) THEN sPredict
    ELSE IF IsEmbeddingModel(name) THEN sEmbedContent
    ELSE IF isStream THEN sStreamGenerateContent
    ELSE sGenerateContent

GetRequestURL ==
    /\ pc = "start"
    /\ LET name == RewriteModelName(info.UpstreamModelName,
                                    settings.ThinkingAdapterEnabled)
           version == GetGeminiVersionSetting(name)
       IN  /\ info' = [info EXCEPT !.UpstreamModelName = name]
           /\ url' = Sprintf4(info.BaseUrl, version, name,
                              RequestURLAction(name, info.IsStream))
    /\ ret' = [op |-> "GetRequestURL", err |-> ""]
    /\ pc' = "requested"
    /\ UNCHANGED <<settings, requestModel, handler, resp, bodyClosed, writer,
                   request>>

(***************************************************************************)
(* GeminiImageHandler                                                      *)
(***************************************************************************)
imageTokens == 258

NilUsage == [nil |-> TRUE]
NoWrite == [written |-> FALSE]

\* the loop over geminiResponse.Predictions
RECURSIVE ImageData(_)
ImageData(predictions) ==
    IF predictions = <<>> THEN <<>>
    ELSE LET prediction == Head(predictions)
         IN  IF prediction.RaiFilteredReason # ""
             THEN ImageData(Tail(predictions))
             ELSE <<[B64Json |-> prediction.BytesBase64Encoded]>>
                      \o ImageData(Tail(predictions))

ImageResult(err, usage, closed, w) ==
    [err |-> err, usage |-> usage, bodyClosed |-> closed, writer |-> w]

GeminiImageHandlerCountsAll(r) ==
    IF ~r.readOK
    THEN ImageResult("read_response_body_failed", NilUsage, FALSE, NoWrite)
    ELSE IF ~r.parseOK
    THEN ImageResult("unmarshal_response_body_failed", NilUsage, TRUE, NoWrite)
    ELSE IF Len(r.Predictions) = 0
    THEN ImageResult("no_images", NilUsage, TRUE, NoWrite)
    ELSE LET data == ImageData(r.Predictions)
             generatedImages == Len(r.Predictions)
         IN  IF ~r.marshalOK
             THEN ImageResult("marshal_response_failed", NilUsage, TRUE, NoWrite)
             ELSE ImageResult("",
                      [PromptTokens |-> imageTokens * generatedImages,
                       CompletionTokens |-> 0,
                       TotalTokens |-> imageTokens * generatedImages],
                      TRUE,
                      [written |-> TRUE, status |-> r.StatusCode,
                       contentType |-> "application/json", Data |-> data])

\* r is what the handler finds in resp: whether the body can be read, whether
\* it parses, the predictions it holds, and whether the reply can be marshalled
GeminiImageHandler(r) ==
    IF ~r.readOK
    THEN ImageResult("read_response_body_failed", NilUsage, FALSE, NoWrite)
    ELSE IF ~r.parseOK
    THEN ImageResult("unmarshal_response_body_failed", NilUsage, TRUE, NoWrite)
    ELSE IF Len(r.Predictions) = 0
    THEN ImageResult("no_images", NilUsage, TRUE, NoWrite)
    ELSE LET data == ImageData(r.Predictions)
             generatedImages == Len(data)
         IN  IF ~r.marshalOK
             THEN ImageResult("marshal_response_failed", NilUsage, TRUE, NoWrite)
             ELSE ImageResult("",
                      [PromptTokens |-> imageTokens * generatedImages,
                       CompletionTokens |-> 0,
                       TotalTokens |-> imageTokens * generatedImages],
                      TRUE,
                      [written |-> TRUE, status |-> r.StatusCode,
                       contentType |-> "application/json", Data |-> data])

\* the vendor responses the image handler may find
Prediction == [BytesBase64Encoded : {"imgA", "imgB"},
               RaiFilteredReason : {"", "blocked"}]

RECURSIVE SeqsUpTo(_, _)
SeqsUpTo(S, n) ==
    IF n = 0 THEN {<<>>}
    ELSE LET shorter == SeqsUpTo(S, n - 1)
         IN  shorter \cup {Append(q, x) : q \in shorter, x \in S}

Responses ==
    {[readOK |-> FALSE, parseOK |-> FALSE, marshalOK |-> FALSE,
      StatusCode |-> 200, Predictions |-> <<>>],
     [readOK |-> TRUE, parseOK |-> FALSE, marshalOK |-> FALSE,
      StatusCode |-> 200, Predictions |-> <<>>]}
    \cup {[readOK |-> TRUE, parseOK |-> TRUE, marshalOK |-> m,
           StatusCode |-> 200, Predictions |-> p] :
             m \in BOOLEAN, p \in SeqsUpTo(Prediction, MaxPredictions)}

NoResp == [readOK |-> FALSE, parseOK |-> FALSE, marshalOK |-> FALSE,
           StatusCode |-> 0, Predictions |-> <<>>]

(***************************************************************************)
(* Adaptor.DoResponse                                                      *)
(***************************************************************************)
SelectHandlerImageFirst(i) ==
    IF HasPrefix(i.UpstreamModelName, sImagen) THEN "GeminiImageHandler"
    ELSE IF i.RelayMode = "RelayModeGemini"
    THEN IF i.IsStream THEN "GeminiTextGenerationStreamHandler"
         ELSE "GeminiTextGenerationHandler"
    ELSE IF IsEmbeddingModel(i.UpstreamModelName) THEN "GeminiEmbeddingHandler"
    ELSE IF i.IsStream THEN "GeminiChatStreamHandler"
    ELSE "GeminiChatHandler"

SelectHandlerNarrowEmbedding(i) ==
    IF i.RelayMode = "RelayModeGemini"
    THEN IF i.IsStream THEN "GeminiTextGenerationStreamHandler"
         ELSE "GeminiTextGenerationHandler"
    ELSE IF HasPrefix(i.UpstreamModelName, sImagen) THEN "GeminiImageHandler"
    ELSE IF \/ HasPrefix(i.UpstreamModelName, sTextEmbedding)
            \/ HasPrefix(i.UpstreamModelName, sEmbedding)
    THEN "GeminiEmbeddingHandler"
    ELSE IF i.IsStream THEN "GeminiChatStreamHandler"
    ELSE "GeminiChatHandler"

SelectHandler(i) ==
    IF i.RelayMode = "RelayModeGemini"
    THEN IF i.IsStream THEN "GeminiTextGenerationStreamHandler"
         ELSE "GeminiTextGenerationHandler"
    ELSE IF HasPrefix(i.UpstreamModelName, sImagen) THEN "GeminiImageHandler"
    ELSE IF IsEmbeddingModel(i.UpstreamModelName) THEN "GeminiEmbeddingHandler"
    ELSE IF i.IsStream THEN "GeminiChatStreamHandler"
    ELSE "GeminiChatHandler"

DoResponse ==
    /\ pc = "requested"
    /\ handler' = SelectHandler(info)
    /\ IF handler' = "GeminiImageHandler"
       THEN \E r \in Responses :
               LET res == GeminiImageHandler(r)
               IN  /\ resp' = r
                   /\ bodyClosed' = res.bodyClosed
                   /\ writer' = res.writer
                   /\ ret' = [op |-> "GeminiImageHandler", err |-> res.err,
                              usage |-> res.usage]
       ELSE \* the other handlers are not part of this file
            /\ ret' = [op |-> handler', err |-> "external"]
            /\ UNCHANGED <<resp, bodyClosed, writer>>
    /\ pc' = "done"
    /\ UNCHANGED <<settings, info, requestModel, url, request>>

(***************************************************************************)
(* One request: the URL is resolved, then the response is dispatched.      *)
(***************************************************************************)
NoRequest == [kind |-> "none"]

Init ==
    /\ settings \in [ThinkingAdapterEnabled : BOOLEAN]
    /\ info \in [UpstreamModelName : ModelIds, IsStream : BOOLEAN,
                 RelayMode : {"RelayModeGemini", "RelayModeChatCompletions"},
                 BaseUrl : {sBaseUrl}]
    /\ requestModel = info.UpstreamModelName
    /\ pc = "start"
    /\ url = <<>>
    /\ handler = ""
    /\ resp = NoResp
    /\ bodyClosed = FALSE
    /\ writer = NoWrite
    /\ request = NoRequest
    /\ ret = [op |-> "", err |-> ""]

Next == GetRequestURL \/ DoResponse

Spec == Init /\ [][Next]_vars

(***************************************************************************)
(* Adaptor.ConvertImageRequest                                             *)
(***************************************************************************)
NilPayload == [nil |-> TRUE]

ConvertImageRequestSwapsRatios(i, req) ==
    IF ~HasPrefix(i.UpstreamModelName, sImagen)
    THEN [err |-> "not supported model for image generation",
          payload |-> NilPayload]
    ELSE LET aspectRatio ==
                 IF req.Size = "1024x1024" THEN "1:1"
                 ELSE IF req.Size = "1024x1792" THEN "16:9"
                 ELSE IF req.Size = "1792x1024" THEN "9:16"
                 ELSE "1:1"
         IN  [err |-> "",
              payload |-> [Instances |-> <<[Prompt |-> req.Prompt]>>,
                           Parameters |-> [SampleCount |-> req.N,
                                           AspectRatio |-> aspectRatio,
                                           PersonGeneration |-> "allow_adult"]]]

ConvertImageRequestOp(i, req) ==
    IF ~HasPrefix(i.UpstreamModelName, sImagen)
    THEN [err |-> "not supported model for image generation",
          payload |-> NilPayload]
    ELSE LET aspectRatio ==
                 IF req.Size = "1024x1024" THEN "1:1"
                 ELSE IF req.Size = "1024x1792" THEN "9:16"
                 ELSE IF req.Size = "1792x1024" THEN "16:9"
                 ELSE "1:1"
         IN  [err |-> "",
              payload |-> [Instances |-> <<[Prompt |-> req.Prompt]>>,
                           Parameters |-> [SampleCount |-> req.N,
                                           AspectRatio |-> aspectRatio,
                                           PersonGeneration |-> "allow_adult"]]]

ImageRequests ==
    [kind : {"image"},
     Size : {"1024x1024", "1024x1792", "1792x1024", "", "512x512", "1792x1792"},
     N : {1, 2},
     Prompt : {"a cat", ""}]

ConvertImageRequest ==
    /\ pc = "start"
    /\ \E req \in ImageRequests :
          /\ request' = req
          /\ ret' = [op |-> "ConvertImageRequest"] @@ ConvertImageRequestOp(info, req)
    /\ pc' = "converted"
    /\ UNCHANGED <<settings, info, requestModel, url, handler, resp,
                   bodyClosed, writer>>

(***************************************************************************)
(* Adaptor.ConvertEmbeddingRequest                                         *)
(***************************************************************************)
\* dto.EmbeddingRequest.ParseInput: a single string is one input, a list is
\* its elements
ParseInput(input) ==
    IF input.kind = "string" THEN <<input.value>>
    ELSE IF input.kind = "list" THEN input.value
    ELSE <<>>

ConvertEmbeddingRequestAnyTextEmbedding(i, req) ==
    IF req.Input.kind = "nil"
    THEN [err |-> "input is required", payload |-> NilPayload]
    ELSE LET inputs == ParseInput(req.Input)
         IN  IF Len(inputs) = 0
             THEN [err |-> "input is empty", payload |-> NilPayload]
             ELSE [err |-> "",
                   payload |->
                     [Content |-> [Parts |-> <<[Text |-> inputs[1]]>>],
                      OutputDimensionality |->
                        IF /\ HasPrefix(i.UpstreamModelName, sTextEmbedding)
                           /\ req.Dimensions > 0
                        THEN req.Dimensions ELSE 0]]

\* OutputDimensionality 0 is the zero value: the field is omitted
ConvertEmbeddingRequestOp(i, req) ==
    IF req.Input.kind = "nil"
    THEN [err |-> "input is required", payload |-> NilPayload]
    ELSE LET inputs == ParseInput(req.Input)
         IN  IF Len(inputs) = 0
             THEN [err |-> "input is empty", payload |-> NilPayload]
             ELSE [err |-> "",
                   payload |->
                     [Content |-> [Parts |-> <<[Text |-> inputs[1]]>>],
                      OutputDimensionality |->
                        IF /\ i.UpstreamModelName = sTextEmbedding004
                           /\ req.Dimensions > 0
                        THEN req.Dimensions ELSE 0]]

EmbeddingInputs ==
    {[kind |-> "nil", value |-> <<>>]}
    \cup {[kind |-> "string", value |-> x] : x \in {"a", "b"}}
    \cup {[kind |-> "list", value |-> q] : q \in SeqsUpTo({"a", "b"}, MaxInputs)}

EmbeddingRequests ==
    [kind : {"embedding"}, Input : EmbeddingInputs, Dimensions : {-1, 0, 256}]

ConvertEmbeddingRequest ==
    /\ pc = "start"
    /\ \E req \in EmbeddingRequests :
          /\ request' = req
          /\ ret' = [op |-> "ConvertEmbeddingRequest"]
                        @@ ConvertEmbeddingRequestOp(info, req)
    /\ pc' = "converted"
    /\ UNCHANGED <<settings, info, requestModel, url, handler, resp,
                   bodyClosed, writer>>

\* the converters read only the model id of info
InitConvert ==
    /\ Init
    /\ ~settings.ThinkingAdapterEnabled
    /\ ~info.IsStream
    /\ info.RelayMode = "RelayModeChatCompletions"

NextConvert == ConvertImageRequest \/ ConvertEmbeddingRequest

SpecConvert == InitConvert /\ [][NextConvert]_vars

(***************************************************************************)
(* openAIMessageToGeminiContent and openAIMessageContentToGeminiParts      *)
(***************************************************************************)
\* service.DecodeBase64FileData: only a self-describing payload decodes
DecodeBase64FileData(u) ==
    IF u = "data:image/png;base64,AAAA"
    THEN [err |-> "", format |-> "image/png", base64 |-> "AAAA"]
    ELSE [err |-> "decode failed", format |-> "", base64 |-> ""]

\* service.GetFileBase64FromUrl: only a reachable URL is fetched
GetFileBase64FromUrl(u) ==
    IF u = "https://ok/cat.jpg"
    THEN [err |-> "", MimeType |-> "image/jpeg", Base64Data |-> "BBBB"]
    ELSE [err |-> "fetch failed", MimeType |-> "", Base64Data |-> ""]

TextPart(t) == [Text |-> t, InlineData |-> [nil |-> TRUE]]
InlinePart(m, d) == [Text |-> "", InlineData |-> [MimeType |-> m, Data |-> d]]

PartsResult(outcome, parts, err) ==
    [outcome |-> outcome, parts |-> parts, err |-> err]

\* the loop over mediaContents, parts being the parts appended so far
RECURSIVE MediaLoop(_, _)
MediaLoop(mediaContents, parts) ==
    IF mediaContents = <<>> THEN PartsResult("parts", parts, "")
    ELSE LET mediaContent == Head(mediaContents)
             rest == Tail(mediaContents)
         IN  IF mediaContent.kind # "map" THEN MediaLoop(rest, parts)
             ELSE IF mediaContent.type = "text"
             THEN IF mediaContent.text.isString
                  THEN MediaLoop(rest, Append(parts, TextPart(mediaContent.text.value)))
                  ELSE PartsResult("panic", <<>>, "interface conversion")
             ELSE IF mediaContent.type = "image_url"
             THEN IF ~mediaContent.image_url.isMap
                     \/ ~mediaContent.image_url.url.isString
                  THEN PartsResult("panic", <<>>, "interface conversion")
                  ELSE LET u == mediaContent.image_url.url.value
                           decoded == DecodeBase64FileData(u)
                           fileData == GetFileBase64FromUrl(u)
                       IN  IF decoded.err = ""
                           THEN MediaLoop(rest, Append(parts,
                                    InlinePart(decoded.format, decoded.base64)))
                           ELSE IF fileData.err # ""
                           THEN PartsResult("error", <<>>, fileData.err)
                           ELSE MediaLoop(rest, Append(parts,
                                    InlinePart(fileData.MimeType, fileData.Base64Data)))
             ELSE MediaLoop(rest, parts)

openAIMessageContentToGeminiParts(content_any) ==
    IF content_any.kind = "string"
    THEN PartsResult("parts", <<TextPart(content_any.value)>>, "")
    ELSE IF content_any.kind # "list"
    THEN PartsResult("error", <<>>, "unsupported message content format")
    ELSE MediaLoop(content_any.value, <<>>)

openAIMessageToGeminiContent(message) ==
    LET role == IF message.Role = "assistant" THEN "model" ELSE message.Role
        res == openAIMessageContentToGeminiParts(message.Content)
    IN  IF res.outcome = "parts"
        THEN [outcome |-> "content", err |-> "",
              content |-> [Role |-> role, Parts |-> res.parts]]
        ELSE [outcome |-> res.outcome, err |-> res.err,
              content |-> [nil |-> TRUE]]

\* the content items of a message
StringValue(v) == [isString |-> TRUE, value |-> v]
NotAString == [isString |-> FALSE, value |-> ""]
NoImageUrl == [isMap |-> FALSE, url |-> NotAString]
ImageUrl(u) == [isMap |-> TRUE, url |-> u]
MapItem(type, text, imageUrl) ==
    [kind |-> "map", type |-> type, text |-> text, image_url |-> imageUrl]

ContentItems ==
    {[kind |-> "notmap", type |-> "", text |-> NotAString, image_url |-> NoImageUrl],
     MapItem("text", StringValue("hi"), NoImageUrl),
     MapItem("text", NotAString, NoImageUrl),
     MapItem("image_url", NotAString, NoImageUrl),
     MapItem("image_url", NotAString, ImageUrl(NotAString)),
     MapItem("image_url", NotAString, ImageUrl(StringValue("data:image/png;base64,AAAA"))),
     MapItem("image_url", NotAString, ImageUrl(StringValue("https://ok/cat.jpg"))),
     MapItem("image_url", NotAString, ImageUrl(StringValue("https://down/cat.jpg"))),
     MapItem("input_audio", NotAString, NoImageUrl)}

Contents ==
    {[kind |-> "string", value |-> "hi"], [kind |-> "number", value |-> "7"]}
    \cup {[kind |-> "list", value |-> q] : q \in SeqsUpTo(ContentItems, MaxItems)}

Messages == [kind : {"message"}, Role : {"user", "assistant"}, Content : Contents]

ConvertMessage ==
    /\ pc = "start"
    /\ \E message \in Messages :
          /\ request' = message
          /\ ret' = [op |-> "openAIMessageToGeminiContent"]
                        @@ openAIMessageToGeminiContent(message)
    /\ pc' = "converted"
    /\ UNCHANGED <<settings, info, requestModel, url, handler, resp,
                   bodyClosed, writer>>

\* the content encoder reads nothing of info
InitContent ==
    /\ InitConvert
    /\ info.UpstreamModelName = sGemini

NextContent == ConvertMessage

SpecContent == InitContent /\ [][NextContent]_vars

(***************************************************************************)
(* Properties.                                                             *)
(***************************************************************************)
ImageHandlerReturned == pc = "done" /\ handler = "GeminiImageHandler"

\* C1: whenever the vendor reply is read and parsed and no prediction has an
\* empty filter reason, the image handler returns an error: it returns no
\* usage record and writes no success body.
C1_NoSurvivorIsAnError ==
    (/\ ImageHandlerReturned
     /\ resp.readOK /\ resp.parseOK
     /\ \A k \in 1..Len(resp.Predictions) :
            resp.Predictions[k].RaiFilteredReason # "")
        => (ret.err # "" /\ ~writer.written)

\* C2: when the image handler succeeds, with N the number of predictions with
\* an empty filter reason, the usage is {258*N, 0, 258*N}, total is prompt plus
\* completion, and the written response holds exactly those N images in their
\* original order.
C2_UsageCountsSurvivors ==
    (ImageHandlerReturned /\ ret.err = "")
        => LET survivors == SelectSeq(resp.Predictions,
                                LAMBDA p : p.RaiFilteredReason = "")
               N == Len(survivors)
           IN  /\ ret.usage.PromptTokens = 258 * N
               /\ ret.usage.CompletionTokens = 0
               /\ ret.usage.TotalTokens = 258 * N
               /\ ret.usage.TotalTokens
                      = ret.usage.PromptTokens + ret.usage.CompletionTokens
               /\ writer.written
               /\ Len(writer.Data) = N
               /\ \A k \in 1..N :
                      writer.Data[k].B64Json = survivors[k].BytesBase64Encoded

\* a success on a list with a filtered prediction between two different images
C2_Witness ==
    /\ ImageHandlerReturned /\ ret.err = ""
    /\ Len(resp.Predictions) = 3
    /\ resp.Predictions[1].RaiFilteredReason = ""
    /\ resp.Predictions[2].RaiFilteredReason # ""
    /\ resp.Predictions[3].RaiFilteredReason = ""
    /\ resp.Predictions[1].BytesBase64Encoded
           # resp.Predictions[3].BytesBase64Encoded

\* C3: whichever way the image handler returns, the response body has been
\* closed.
C3_BodyClosedOnEveryReturn == ImageHandlerReturned => bodyClosed

\* C4: after GetRequestURL the effective model id is the requested id when
\* the thinking adapter is disabled; when it is enabled it is the base of the
\* first matching form of base-thinking-<integer>, base-thinking and
\* base-nothinking, and the requested id unchanged when none matches.
C4_RewriteFollowsTheThreeForms ==
    pc # "start"
        => LET m == requestModel
               budgetAt == {i \in 1..Len(m) :
                               /\ i + Len(sThinkingDash) <= Len(m)
                               /\ SubSeq(m, i, i + Len(sThinkingDash) - 1)
                                      = sThinkingDash
                               /\ \A k \in (i + Len(sThinkingDash))..Len(m) :
                                      m[k] \in Digits}
               canonical ==
                   IF ~settings.ThinkingAdapterEnabled THEN m
                   ELSE IF budgetAt # {}
                   THEN SubSeq(m, 1, (CHOOSE i \in budgetAt : TRUE) - 1)
                   ELSE IF HasSuffix(m, sThinking)
                   THEN SubSeq(m, 1, Len(m) - Len(sThinking))
                   ELSE IF HasSuffix(m, sNoThinking)
                   THEN SubSeq(m, 1, Len(m) - Len(sNoThinking))
                   ELSE m
           IN  info.UpstreamModelName = canonical

\* C5: GetRequestURL returns no error and the URL base/version/models/id:action
\* with id the effective model id; the action is predict for an imagen id and
\* embedContent for an embedding id whatever the streaming flag, and for any
\* other id streamGenerateContent?alt=sse iff the streaming flag is set, else
\* generateContent.
C5_URLShape ==
    /\ pc = "requested" => (ret.op = "GetRequestURL" /\ ret.err = "")
    /\ pc # "start"
        => LET id == info.UpstreamModelName
               stem == info.BaseUrl \o sSlash \o GetGeminiVersionSetting(id)
                           \o sModels \o id \o sColon
               action == SubSeq(url, Len(stem) + 1, Len(url))
               embedding == \/ HasPrefix(id, sTextEmbedding)
                            \/ HasPrefix(id, sEmbedding)
                            \/ HasPrefix(id, sGeminiEmbedding)
           IN  /\ HasPrefix(url, stem)
               /\ HasPrefix(id, sImagen) => action = sPredict
               /\ (~HasPrefix(id, sImagen) /\ embedding) => action = sEmbedContent
               /\ (~HasPrefix(id, sImagen) /\ ~embedding)
                      => /\ action \in {sStreamGenerateContent, sGenerateContent}
                         /\ action = sStreamGenerateContent <=> info.IsStream

\* a streaming request for an imagen id whose thinking suffix was stripped
C5_Witness ==
    /\ pc = "requested"
    /\ info.IsStream
    /\ HasPrefix(info.UpstreamModelName, sImagen)
    /\ requestModel # info.UpstreamModelName
    /\ HasSuffix(url, sColon \o sPredict)

\* C6: DoResponse selects one handler, first match in this order: relay mode
\* native passthrough gives the text generation handler by the streaming flag
\* alone; an imagen id the image handler; an embedding id the embedding
\* handler; otherwise the chat handler, streaming iff the flag is set.
C6_DispatchOrder ==
    pc = "done"
        => LET id == info.UpstreamModelName
               native == info.RelayMode = "RelayModeGemini"
               image == HasPrefix(id, sImagen)
               embedding == \/ HasPrefix(id, sTextEmbedding)
                            \/ HasPrefix(id, sEmbedding)
                            \/ HasPrefix(id, sGeminiEmbedding)
           IN  /\ (native /\ info.IsStream)
                      => handler = "GeminiTextGenerationStreamHandler"
               /\ (native /\ ~info.IsStream)
                      => handler = "GeminiTextGenerationHandler"
               /\ (~native /\ image) => handler = "GeminiImageHandler"
               /\ (~native /\ ~image /\ embedding)
                      => handler = "GeminiEmbeddingHandler"
               /\ (~native /\ ~image /\ ~embedding /\ info.IsStream)
                      => handler = "GeminiChatStreamHandler"
               /\ (~native /\ ~image /\ ~embedding /\ ~info.IsStream)
                      => handler = "GeminiChatHandler"

\* native passthrough of an imagen id goes to the text generation handler
C6_Witness ==
    /\ pc = "done"
    /\ info.RelayMode = "RelayModeGemini"
    /\ HasPrefix(info.UpstreamModelName, sImagen)
    /\ handler = "GeminiTextGenerationHandler"

\* C7: ConvertImageRequest returns an error and no payload for an id without
\* the imagen prefix; otherwise a payload with one instance carrying the
\* prompt, the requested sample count, personGeneration allow_adult and the
\* aspect ratio 9:16 for 1024x1792, 16:9 for 1792x1024 and 1:1 for every other
\* size.
C7_ImagePayload ==
    ret.op = "ConvertImageRequest"
        => IF ~HasPrefix(info.UpstreamModelName, sImagen)
           THEN ret.err # "" /\ ret.payload = NilPayload
           ELSE /\ ret.err = ""
                /\ Len(ret.payload.Instances) = 1
                /\ ret.payload.Instances[1].Prompt = request.Prompt
                /\ ret.payload.Parameters.SampleCount = request.N
                /\ ret.payload.Parameters.PersonGeneration = "allow_adult"
                /\ request.Size = "1024x1792"
                       => ret.payload.Parameters.AspectRatio = "9:16"
                /\ request.Size = "1792x1024"
                       => ret.payload.Parameters.AspectRatio = "16:9"
                /\ request.Size \notin {"1024x1792", "1792x1024"}
                       => ret.payload.Parameters.AspectRatio = "1:1"

\* the scenario of two landscape images of a cat
C7_Witness ==
    /\ ret.op = "ConvertImageRequest"
    /\ HasPrefix(info.UpstreamModelName, sImagen)
    /\ request.Size = "1792x1024" /\ request.N = 2 /\ request.Prompt = "a cat"
    /\ ret.payload.Parameters.AspectRatio = "16:9"

\* C8: ConvertEmbeddingRequest fails when the input is absent or empty;
\* otherwise the content is one text part, the first input, and the output
\* dimensionality is the requested one iff the id is exactly
\* text-embedding-004 and the request asks for more than 0, and omitted
\* otherwise.
C8_EmbeddingPayload ==
    ret.op = "ConvertEmbeddingRequest"
        => IF \/ request.Input.kind = "nil"
              \/ (request.Input.kind = "list" /\ request.Input.value = <<>>)
           THEN ret.err # "" /\ ret.payload = NilPayload
           ELSE LET first == IF request.Input.kind = "string"
                             THEN request.Input.value
                             ELSE request.Input.value[1]
                IN  /\ ret.err = ""
                    /\ ret.payload.Content.Parts = <<[Text |-> first]>>
                    /\ ret.payload.OutputDimensionality
                           = IF /\ info.UpstreamModelName = sTextEmbedding004
                                /\ request.Dimensions > 0
                             THEN request.Dimensions
                             ELSE 0

\* dimensions requested of another text-embedding id, with three inputs
C8_Witness ==
    /\ ret.op = "ConvertEmbeddingRequest"
    /\ info.UpstreamModelName = sTextEmbedding \o s5
    /\ request.Input.kind = "list"
    /\ request.Input.value = <<"a", "b", "b">>
    /\ request.Dimensions = 256
    /\ ret.err = ""
    /\ ret.payload.OutputDimensionality = 0

\* C9: the content encoder ends, for every content value, with a part list
\* or with a returned error.
C9_PartsOrReturnedError ==
    ret.op = "openAIMessageToGeminiContent"
        => ret.outcome \in {"content", "error"}

\* C10: with a relay mode other than native passthrough, the handler chosen
\* by DoResponse matches the action of the URL built by GetRequestURL.
C10_HandlerMatchesAction ==
    (pc = "done" /\ info.RelayMode # "RelayModeGemini")
        => /\ handler = "GeminiImageHandler"
                  <=> HasSuffix(url, sColon \o sPredict)
           /\ handler = "GeminiEmbeddingHandler"
                  <=> HasSuffix(url, sColon \o sEmbedContent)
           /\ handler = "GeminiChatStreamHandler"
                  <=> HasSuffix(url, sColon \o sStreamGenerateContent)
           /\ handler = "GeminiChatHandler"
                  <=> HasSuffix(url, sColon \o sGenerateContent)

\* an embedding id that carried a thinking suffix in the request
C10_Witness ==
    /\ pc = "done" /\ info.RelayMode # "RelayModeGemini"
    /\ requestModel # info.UpstreamModelName
    /\ HasPrefix(info.UpstreamModelName, sGeminiEmbedding)
    /\ handler = "GeminiEmbeddingHandler"

====
